---- MODULE Spec2Model ----
(***************************************************************************)
(* A model of nasa.py: the two clients (NasaSyncClient, NasaAsyncClient),  *)
(* their transports (HTTPClient, AsyncHTTPClient) and the lazy assets      *)
(* (SyncAsset, AsyncAsset) they hand out.                                  *)
(*                                                                         *)
(* Python values are tagged records [t |-> type name, v |-> payload]. A    *)
(* str is a sequence of pieces: one-character strings wherever the code    *)
(* looks inside the str (dates, image types, identifiers, the "{}" fields  *)
(* of a url template), so that parsing, splitting and formatting are       *)
(* computed character by character as CPython does; a literal the code     *)
(* only ever copies (a host name, "/archive/", "png") is one piece.        *)
(***************************************************************************)
EXTENDS Integers, Sequences, FiniteSets, TLC

-----------------------------------------------------------------------------
(* Bounds of the model *)

\* longest body the upstream serves for an asset
MaxBody == 1
\* most items in one upstream JSON list
MaxItems == 2
\* most network fetches of asset bytes in one run
MaxFetches == 2
\* most client calls of one run
MaxCalls == 1

-----------------------------------------------------------------------------
(* Python values *)

PyNone == [t |-> "NoneType", v |-> <<>>]
PyStr(s) == [t |-> "str", v |-> s]
PyInt(n) == [t |-> "int", v |-> <<n>>]
PyBool(b) == [t |-> "bool", v |-> <<IF b THEN 1 ELSE 0>>]
PyFloat(whole, frac) == [t |-> "float", v |-> <<whole, frac>>]
PyBytes(b) == [t |-> "bytes", v |-> b]
PyDatetime(y, m, d) == [t |-> "datetime", v |-> <<y, m, d>>]

\* bool(x): None, "", b"", 0 and False are falsy
Truthy(x) ==
    CASE x.t = "NoneType" -> FALSE
      [] x.t \in {"str", "bytes", "Endpoints", "FileTypes", "EpicImageType"}
            -> Len(x.v) > 0
      [] x.t \in {"int", "bool"} -> x.v[1] # 0
      [] x.t = "float" -> x.v[1] # 0 \/ x.v[2] # 0
      [] OTHER -> TRUE

\* isinstance(x, str): the str-mixin enums are str instances too
EnumClasses == {"Endpoints", "FileTypes", "EpicImageType"}
IsStr(x) == x.t = "str" \/ x.t \in EnumClasses
IsDatetime(x) == x.t = "datetime"
\* isinstance(x, int): bool is a subclass of int
IsInt(x) == x.t \in {"int", "bool"}

-----------------------------------------------------------------------------
(* str primitives *)

DigitChars == <<"0", "1", "2", "3", "4", "5", "6", "7", "8", "9">>
IsDigit(c) == \E i \in 1..10 : DigitChars[i] = c
DigitVal(c) == (CHOOSE i \in 1..10 : DigitChars[i] = c) - 1
Whitespace == {" "}

\* int(s) for a str of decimal digits
RECURSIVE ToNat(_)
ToNat(s) ==
    IF s = <<>> THEN 0
    ELSE 10 * ToNat(SubSeq(s, 1, Len(s) - 1)) + DigitVal(s[Len(s)])

\* the decimal digits of n, zero-padded to the given width (%04d, %02d)
RECURSIVE Pad(_, _)
Pad(n, width) ==
    IF width <= 1 /\ n < 10 THEN <<DigitChars[n + 1]>>
    ELSE Pad(n \div 10, width - 1) \o <<DigitChars[(n % 10) + 1]>>

\* sub in s
IsSubstring(sub, s) ==
    \E i \in 0..(Len(s) - Len(sub)) : SubSeq(s, i + 1, i + Len(sub)) = sub

\* s.split(sep) for a one-character sep
RECURSIVE Split(_, _)
Split(s, sep) ==
    IF \A i \in 1..Len(s) : s[i] # sep THEN <<s>>
    ELSE LET i == CHOOSE k \in 1..Len(s) :
                      s[k] = sep /\ \A j \in 1..(k - 1) : s[j] # sep
         IN  <<SubSeq(s, 1, i - 1)>> \o Split(SubSeq(s, i + 1, Len(s)), sep)

\* s.split(): runs of whitespace separate, empty pieces are dropped
RECURSIVE SplitWhitespace(_)
SplitWhitespace(s) ==
    IF s = <<>> THEN <<>>
    ELSE IF s[1] \in Whitespace THEN SplitWhitespace(Tail(s))
    ELSE LET stops == {k \in 1..Len(s) : s[k] \in Whitespace}
             end == IF stops = {} THEN Len(s) + 1
                    ELSE CHOOSE k \in stops : \A j \in stops : k <= j
         IN  <<SubSeq(s, 1, end - 1)>> \o SplitWhitespace(SubSeq(s, end, Len(s)))

\* sep.join(parts)
RECURSIVE Join(_, _)
Join(parts, sep) ==
    IF parts = <<>> THEN <<>>
    ELSE IF Len(parts) = 1 THEN parts[1]
    ELSE parts[1] \o sep \o Join(Tail(parts), sep)

-----------------------------------------------------------------------------
(* datetime.strptime / datetime.strftime with the format "%Y-%m-%d" *)

IsLeap(y) == (y % 4 = 0 /\ y % 100 # 0) \/ y % 400 = 0

DaysInMonth(y, m) ==
    IF m = 2 THEN (IF IsLeap(y) THEN 29 ELSE 28)
    ELSE IF m \in {4, 6, 9, 11} THEN 30 ELSE 31

\* the directive %m of _strptime: 1[0-2]|0[1-9]|[1-9]
MatchesMonth(s) ==
    \/ Len(s) = 2 /\ s[1] = "1" /\ s[2] \in {"0", "1", "2"}
    \/ Len(s) = 2 /\ s[1] = "0" /\ IsDigit(s[2]) /\ s[2] # "0"
    \/ Len(s) = 1 /\ IsDigit(s[1]) /\ s[1] # "0"

\* the directive %d of _strptime: 3[01]|[12]\d|0[1-9]|[1-9]| [1-9]
MatchesDay(s) ==
    \/ Len(s) = 2 /\ s[1] = "3" /\ s[2] \in {"0", "1"}
    \/ Len(s) = 2 /\ s[1] \in {"1", "2"} /\ IsDigit(s[2])
    \/ Len(s) = 2 /\ s[1] \in {"0", " "} /\ IsDigit(s[2]) /\ s[2] # "0"
    \/ Len(s) = 1 /\ IsDigit(s[1]) /\ s[1] # "0"

\* the digits of a %d match (its leading blank is no digit)
DayDigits(s) == IF s[1] = " " THEN Tail(s) ELSE s

\* the ways the regular expression \d\d\d\d-%m-%d matches the whole of s
YmdMatches(s) ==
    {w \in {1, 2} \X {1, 2} :
        /\ Len(s) = 6 + w[1] + w[2]
        /\ \A i \in 1..4 : IsDigit(s[i])
        /\ s[5] = "-"
        /\ MatchesMonth(SubSeq(s, 6, 5 + w[1]))
        /\ s[6 + w[1]] = "-"
        /\ MatchesDay(SubSeq(s, 7 + w[1], 6 + w[1] + w[2]))}

\* datetime.strptime(s, "%Y-%m-%d"): the parsed date, or ok = FALSE where
\* CPython raises ValueError (no match, unconverted data, no such calendar day)
Strptime(s) ==
    LET ms == YmdMatches(s)
    IN  IF ms = {} THEN [ok |-> FALSE, y |-> 0, m |-> 0, d |-> 0]
        ELSE LET w == CHOOSE x \in ms : TRUE
                 y == ToNat(SubSeq(s, 1, 4))
                 m == ToNat(SubSeq(s, 6, 5 + w[1]))
                 d == ToNat(DayDigits(SubSeq(s, 7 + w[1], 6 + w[1] + w[2])))
             IN  [ok |-> y >= 1 /\ d <= DaysInMonth(y, m),
                  y |-> y, m |-> m, d |-> d]

\* datetime.strftime(date, "%Y-%m-%d")
Strftime(date) ==
    Pad(date.v[1], 4) \o <<"-">> \o Pad(date.v[2], 2) \o <<"-">> \o Pad(date.v[3], 2)

-----------------------------------------------------------------------------
(* enums.py *)

EndpointsOf(s) == [t |-> "Endpoints", v |-> s]
APOD == EndpointsOf(<<"/planetary/apod">>)
EPIC == EndpointsOf(<<"/EPIC/api/">>)
EPIC_IMG == EndpointsOf(<<"https://epic.gsfc.nasa.gov">>)
BASE_API_URL == <<"https://api.nasa.gov">>

EpicImageTypeOf(s) == [t |-> "EpicImageType", v |-> s]
natural == EpicImageTypeOf(<<"n", "a", "t", "u", "r", "a", "l">>)
natural_date ==
    EpicImageTypeOf(<<"n", "a", "t", "u", "r", "a", "l", "/", "d", "a", "t", "e">>)
enhanced == EpicImageTypeOf(<<"e", "n", "h", "a", "n", "c", "e", "d">>)
enhanced_date ==
    EpicImageTypeOf(<<"e", "n", "h", "a", "n", "c", "e", "d", "/", "d", "a", "t", "e">>)
EpicImageType == {natural, natural_date, enhanced, enhanced_date}

FileTypesOf(s) == [t |-> "FileTypes", v |-> s]
png == FileTypesOf(<<"png">>)
jpg == FileTypesOf(<<"jpg">>)
thumbs == FileTypesOf(<<"thumbs">>)
FileTypes == {png, jpg, thumbs}

\* the name an enum member is defined under
MemberName(x) ==
    CASE x = APOD -> <<"APOD">>
      [] x = EPIC -> <<"EPIC">>
      [] x = EPIC_IMG -> <<"EPIC_IMG">>
      [] x = natural_date -> <<"natural_date">>
      [] x = enhanced_date -> <<"enhanced_date">>
      [] OTHER -> x.v

\* How format() renders a member of a class Name(str, Enum), in an f-string and
\* in str.format alike: CPython 3.10 substitutes the member's value, CPython
\* 3.11 and later substitute str(member), which is "Name.member". The library
\* asks for 3.10 or later, so either may be the interpreter it runs on.
EnumFormats == {"value", "str"}

VARIABLE enum_format     \* which of the two the interpreter of the run does

\* format(x, "") of a str or of a str-mixin enum member
FormatValue(x) ==
    IF x.t \in EnumClasses /\ enum_format = "str"
    THEN <<x.t, ".">> \o MemberName(x)
    ELSE x.v

\* s.format(*args) for a template whose only fields are automatic "{}" ones
RECURSIVE FormatFrom(_, _, _, _)
FormatFrom(s, i, k, args) ==
    IF i > Len(s) THEN <<>>
    ELSE IF s[i] = "{" /\ i < Len(s) /\ s[i + 1] = "}"
         THEN FormatValue(args[k]) \o FormatFrom(s, i + 2, k + 1, args)
         ELSE <<s[i]>> \o FormatFrom(s, i + 1, k, args)

StrFormat(s, args) == FormatFrom(s, 1, 1, args)

-----------------------------------------------------------------------------
(* client.py: _BaseClient *)

ValidateDateRaises(date) == ~Strptime(date.v).ok

\* _validate_date: "ValueError" where it raises, "ok" where it returns
_validate_date(date) == IF ValidateDateRaises(date) THEN "ValueError" ELSE "ok"

_date_to_str(date) == PyStr(Strftime(date))

\* _date_validator: the (start_date, end_date) pair it returns, or the error
_date_validator(start_date, end_date) ==
    IF ~(IsDatetime(start_date) \/ IsStr(start_date))
    THEN [outcome |-> "ValueError", start |-> PyNone, end |-> PyNone]
    ELSE LET start == IF IsDatetime(start_date) THEN PyStr(Strftime(start_date))
                      ELSE start_date
         IN  IF ~(IsDatetime(end_date) \/ IsStr(end_date)) /\ end_date # PyNone
             THEN [outcome |-> "ValueError", start |-> PyNone, end |-> PyNone]
             ELSE [outcome |-> "ok",
                   start |-> start,
                   end |-> IF Truthy(end_date) /\ IsDatetime(end_date)
                           THEN PyStr(Strftime(end_date)) ELSE end_date]

\* the tag _epic_url_image_builder returns with the url
BuilderUrlState(image_as) == "partial"

\* _epic_url_image_builder: the pair (url, url_state)
_epic_url_image_builder(identifier, date, image_type, image_as) ==
    LET date_ == Join(Split(SplitWhitespace(date.v)[1], "-"), <<"/">>)
        image_type_ == IF IsSubstring(<<"n", "a", "t", "u", "r", "a", "l">>, image_type.v)
                       THEN <<"natural">> ELSE <<"enhanced">>
        prefix == IF image_type_ = <<"natural">> THEN <<"epic_1b">> ELSE <<"epic_RGB">>
        ext == IF Truthy(image_as) THEN image_as.v ELSE <<"{", "}">>
    IN  [url |-> PyStr(FormatValue(EPIC_IMG) \o <<"/archive/">>
                       \o image_type_ \o <<"/">> \o date_ \o <<"/">> \o ext
                       \o <<"/">> \o prefix \o <<"_">> \o FormatValue(identifier)
                       \o <<".">> \o ext),
         url_state |-> BuilderUrlState(image_as)]

-----------------------------------------------------------------------------
(* The state *)

VARIABLES
    client,     \* the client of the run: its class and the token it was given
    assets,     \* the assets of the entities the latest client call returned
    built,      \* built[i]: the url assets[i] was constructed with
    fetches,    \* fetches[i]: the network fetches issued so far for assets[i]
    calls,      \* the client calls made so far
    last,       \* the latest call: its arguments, what it sent, how it ended
    http,       \* http[i]: the transport of the i-th client of a run of several
    default_params, \* the dict each request method has as the default of params
    gen,        \* the sequence a get_gen_astronomy_pictures call returned
    tasks       \* tasks[t]: where task t is in its read() of the asset they share

vars == <<enum_format, client, assets, built, fetches, calls, last, http,
          default_params, gen, tasks>>

ClientClasses == {"NasaSyncClient", "NasaAsyncClient"}
AssetClass(c) == IF c = "NasaSyncClient" THEN "SyncAsset" ELSE "AsyncAsset"

NoAsset == [cls |-> "none", _url |-> PyNone, url_state |-> "none", _bytes |-> PyNone]
NoSink == [content |-> <<>>, pos |-> 0]
NoResponse == [kind |-> "none", items |-> <<>>]

\* a call record: op and cls name the method, args its arguments; sent are the
\* metadata requests it issued, fetched the urls it fetched bytes from, resp the
\* upstream answer it consumed; idx and before are the asset it ran on and that
\* asset as it was before; file0 and file are the byte sink before and after
Call(op, cls, args, outcome, sent, fetched, ret, resp, idx, before, file0, file) ==
    [op |-> op, cls |-> cls, args |-> args, outcome |-> outcome, sent |-> sent,
     fetched |-> fetched, ret |-> ret, resp |-> resp, idx |-> idx,
     before |-> before, file0 |-> file0, file |-> file]

\* params: dict = {} of HTTPClient.request and of AsyncHTTPClient.request: one
\* dict per function, made when the class body runs
NoDefaultParams == [HTTPClient |-> {}, AsyncHTTPClient |-> {}]

\* no get_gen_astronomy_pictures call was made
NoGen == [state |-> "none", cls |-> "none", args |-> <<>>, items |-> <<>>,
          pos |-> 0, sent |-> <<>>, yielded |-> <<>>, ended |-> "no"]

-----------------------------------------------------------------------------
(* The upstream service: what it may answer *)

RECURSIVE SeqsUpTo(_, _)
SeqsUpTo(S, n) ==
    IF n = 0 THEN {<<>>}
    ELSE LET shorter == SeqsUpTo(S, n - 1)
         IN  shorter \cup {Append(q, x) : q \in {r \in shorter : Len(r) = n - 1}, x \in S}

ByteVals == {0, 1}
Bodies == SeqsUpTo(ByteVals, MaxBody)

Url1 == PyStr(<<"https://apod.nasa.gov/image/a.jpg">>)
GoodDate == <<"2", "0", "2", "2", "-", "1", "2", "-", "1", "3">>
BadDate == <<"2", "0", "2", "2", "/", "1", "2", "/", "1", "3">>
EpicDate == PyStr(GoodDate \o <<" ", "0", "0", ":", "3", "1", ":", "4", "5">>)

\* picture-of-the-day payloads (the keys the clients read: url and date)
ApodItems ==
    {[url |-> Url1, date |-> GoodDate], [url |-> PyStr(<<>>), date |-> GoodDate],
     [url |-> Url1, date |-> BadDate]}

\* EPIC payloads (the keys the clients read: identifier and date)
EpicItems == {[identifier |-> PyStr(<<"4", "2">>), date |-> EpicDate]}

\* the error object {"error": {...}}
ErrorResponse == [kind |-> "error", items |-> <<>>]

\* what the service answers where one JSON object is the resource
ObjectResponses(Items) ==
    {[kind |-> "object", items |-> <<i>>] : i \in Items} \cup {ErrorResponse}

\* what the service answers where a JSON list of objects is the resource
ListResponses(Items) ==
    {[kind |-> "list", items |-> q] : q \in SeqsUpTo(Items, MaxItems)}
    \cup {ErrorResponse}

ApodObjectResponses == ObjectResponses(ApodItems)
ApodListResponses == ListResponses(ApodItems)
EpicListResponses == ListResponses(EpicItems)

\* the answers a call consumes: none where it sends no request
AnswersTo(probe, Responses) == IF probe.sent = <<>> THEN {NoResponse} ELSE Responses

-----------------------------------------------------------------------------
(* _http.py: Route, HTTPClient, AsyncHTTPClient *)

Route(method, path) == [method |-> method, path |-> path, url |-> BASE_API_URL \o path]

\* params["api_key"] = token on a dict given as a set of key/value pairs
WithApiKey(params, tok) ==
    {kv \in params : kv.k # "api_key"} \cup {[k |-> "api_key", v |-> tok]}

\* HTTPClient.request that turns away None only
HTTPClient_requestNoneOnly(tok, route, params) ==
    IF tok = PyNone
    THEN [outcome |-> "RuntimeError", sent |-> <<>>]
    ELSE [outcome |-> "ok",
          sent |-> <<[method |-> route.method, url |-> route.url,
                      params |-> WithApiKey(params, tok)]>>]

\* HTTPClient.request up to the moment the request is sent
HTTPClient_request(tok, route, params) ==
    IF ~Truthy(tok)
    THEN [outcome |-> "RuntimeError", sent |-> <<>>]
    ELSE [outcome |-> "ok",
          sent |-> <<[method |-> route.method, url |-> route.url,
                      params |-> WithApiKey(params, tok)]>>]

\* AsyncHTTPClient.request up to the moment the request is sent
AsyncHTTPClient_request(tok, route, params) ==
    IF ~Truthy(tok)
    THEN [outcome |-> "RuntimeError", sent |-> <<>>]
    ELSE [outcome |-> "ok",
          sent |-> <<[method |-> route.method, url |-> route.url,
                      params |-> WithApiKey(params, tok)]>>]

Request(c, tok, route, params) ==
    IF c = "NasaSyncClient" THEN HTTPClient_request(tok, route, params)
    ELSE AsyncHTTPClient_request(tok, route, params)

\* get_image_as_bytes without the test of url
GetImageAlwaysFetches(url, body) == [fetched |-> <<url>>, content |-> PyBytes(body)]

\* HTTPClient.get_image_as_bytes; body is what the server answers if asked
HTTPClient_get_image_as_bytes(url, body) ==
    IF ~Truthy(url) THEN [fetched |-> <<>>, content |-> PyBytes(<<>>)]
    ELSE [fetched |-> <<url>>, content |-> PyBytes(body)]

\* AsyncHTTPClient.get_image_as_bytes
AsyncHTTPClient_get_image_as_bytes(url, body) ==
    IF ~Truthy(url) THEN [fetched |-> <<>>, content |-> PyBytes(<<>>)]
    ELSE [fetched |-> <<url>>, content |-> PyBytes(body)]

\* the bodies the server may answer a call with: none where nothing is fetched
BodiesFor(probe) == IF probe.fetched = <<>> THEN {<<>>} ELSE Bodies

-----------------------------------------------------------------------------
(* asset.py: SyncAsset, AsyncAsset *)

NewAsset(cls, url, url_state) ==
    [cls |-> cls, _url |-> url, url_state |-> url_state, _bytes |-> PyNone]

\* SyncAsset.read that leaves the cache None when the fetch brought no bytes
SyncAsset_readForgetsEmpty(a, asset_as, body) ==
    IF a.url_state = "partial" /\ asset_as.t # "FileTypes"
    THEN [outcome |-> "ValueError", asset |-> a, fetched |-> <<>>, ret |-> PyNone]
    ELSE LET url == IF a.url_state = "partial"
                    THEN PyStr(StrFormat(a._url.v, <<asset_as, asset_as>>))
                    ELSE a._url
             got == HTTPClient_get_image_as_bytes(url, body)
         IN  [outcome |-> "ok",
              asset |-> [a EXCEPT !._url = url,
                                  !._bytes = IF Truthy(got.content) THEN got.content
                                             ELSE PyNone],
              fetched |-> got.fetched,
              ret |-> got.content]

\* SyncAsset.read that fetches the resolved url and keeps the url it had
SyncAsset_readKeepsTemplate(a, asset_as, body) ==
    IF a.url_state = "partial" /\ asset_as.t # "FileTypes"
    THEN [outcome |-> "ValueError", asset |-> a, fetched |-> <<>>, ret |-> PyNone]
    ELSE LET url == IF a.url_state = "partial"
                    THEN PyStr(StrFormat(a._url.v, <<asset_as, asset_as>>))
                    ELSE a._url
             got == HTTPClient_get_image_as_bytes(url, body)
         IN  [outcome |-> "ok",
              asset |-> [a EXCEPT !._bytes = got.content],
              fetched |-> got.fetched,
              ret |-> got.content]

\* SyncAsset.read that asks for an extension only while the url holds "{}"
SyncAsset_readResolvedIsFull(a, asset_as, body) ==
    LET partial == a.url_state = "partial" /\ IsSubstring(<<"{", "}">>, a._url.v)
    IN  IF partial /\ asset_as.t # "FileTypes"
        THEN [outcome |-> "ValueError", asset |-> a, fetched |-> <<>>, ret |-> PyNone]
        ELSE LET url == IF partial
                        THEN PyStr(StrFormat(a._url.v, <<asset_as, asset_as>>))
                        ELSE a._url
                 got == HTTPClient_get_image_as_bytes(url, body)
             IN  [outcome |-> "ok",
                  asset |-> [a EXCEPT !._url = url, !._bytes = got.content],
                  fetched |-> got.fetched,
                  ret |-> got.content]

\* SyncAsset.read(asset_as); body is what the server answers if asked
SyncAsset_read(a, asset_as, body) ==
    IF a.url_state = "partial" /\ asset_as.t # "FileTypes"
    THEN [outcome |-> "ValueError", asset |-> a, fetched |-> <<>>, ret |-> PyNone]
    ELSE LET url == IF a.url_state = "partial"
                    THEN PyStr(StrFormat(a._url.v, <<asset_as, asset_as>>))
                    ELSE a._url
             got == HTTPClient_get_image_as_bytes(url, body)
         IN  [outcome |-> "ok",
              asset |-> [a EXCEPT !._url = url, !._bytes = got.content],
              fetched |-> got.fetched,
              ret |-> got.content]

\* AsyncAsset.read()
AsyncAsset_read(a, body) ==
    LET got == AsyncHTTPClient_get_image_as_bytes(a._url, body)
    IN  [outcome |-> "ok",
         asset |-> [a EXCEPT !._bytes = got.content],
         fetched |-> got.fetched,
         ret |-> got.content]

Read(a, asset_as, body) ==
    IF a.cls = "SyncAsset" THEN SyncAsset_read(a, asset_as, body)
    ELSE AsyncAsset_read(a, body)

\* SyncAsset.bytes_asset: a cache that is None or b"" makes the property call
\* read() with no extension
SyncAsset_bytes_asset(a, body) ==
    IF ~Truthy(a._bytes) THEN SyncAsset_read(a, PyNone, body)
    ELSE [outcome |-> "ok", asset |-> a, fetched |-> <<>>, ret |-> a._bytes]

\* AsyncAsset.bytes_asset
AsyncAsset_bytes_asset(a) ==
    [outcome |-> "ok", asset |-> a, fetched |-> <<>>, ret |-> a._bytes]

\* SyncAsset.__eq__ / AsyncAsset.__eq__
Asset__eq__(a, b) == b.cls = a.cls /\ a._url = b._url

\* hash(a) for a SyncAsset or an AsyncAsset. _BaseAsset defines __hash__ as
\* hash(self._url), but each of the two classes defines __eq__ in its body and
\* no __hash__, and Python then sets the class's __hash__ to None: hash(a), and
\* so putting a in a set or using it as a dict key, raises TypeError.
Asset__hash__(a) == [outcome |-> "TypeError", ret |-> PyNone]

\* write that appends at the end of the sink whatever its position
SinkWriteAtEnd(file, content) ==
    [content |-> file.content \o content, pos |-> Len(file.content) + Len(content)]

\* io.BufferedIOBase.write at the current position: the sink afterwards
SinkWrite(file, content) ==
    LET n == Len(content)
        old == file.content
        head == [i \in 1..file.pos |-> IF i <= Len(old) THEN old[i] ELSE 0]
        rest == IF file.pos + n < Len(old)
                THEN SubSeq(old, file.pos + n + 1, Len(old)) ELSE <<>>
    IN  IF n = 0 THEN file
        ELSE [content |-> head \o content \o rest, pos |-> file.pos + n]

\* a keyword argument the caller leaves out
Omitted == [t |-> "omitted", v |-> <<>>]

\* seek_at_end defaulting to False
SeekAtEndDefaultFalse(seek_at_end) ==
    IF seek_at_end = Omitted THEN FALSE ELSE Truthy(seek_at_end)

\* save(..., *, seek_at_end = True)
SeekAtEnd(seek_at_end) == IF seek_at_end = Omitted THEN TRUE ELSE Truthy(seek_at_end)

\* the position save leaves the sink at: file.seek(0) if seek_at_end
SeekAfterWrite(written, seek_at_end) ==
    IF SeekAtEnd(seek_at_end) THEN [written EXCEPT !.pos = 0] ELSE written

\* the bytes save writes, given the cache and the bytes a read returned
SaveContent(a, read) == IF Truthy(a._bytes) THEN a._bytes ELSE read.ret

\* the count save returns for a sink
SaveReturn(content) == PyInt(Len(content.v))

\* save that reads only if the cache is None
AssetSaveIfAbsent(a, file, seek_at_end, body) ==
    LET read == IF a._bytes # PyNone
                THEN [outcome |-> "ok", asset |-> a, fetched |-> <<>>, ret |-> a._bytes]
                ELSE Read(a, PyNone, body)
    IN  IF read.outcome # "ok"
        THEN [outcome |-> read.outcome, asset |-> read.asset, fetched |-> read.fetched,
              ret |-> PyNone, file |-> file]
        ELSE [outcome |-> "ok", asset |-> read.asset, fetched |-> read.fetched,
              ret |-> SaveReturn(read.ret),
              file |-> SeekAfterWrite(SinkWrite(file, read.ret.v), seek_at_end)]

\* SyncAsset.save / AsyncAsset.save with an io.BufferedIOBase destination
AssetSave(a, file, seek_at_end, body) ==
    LET read == IF Truthy(a._bytes)
                THEN [outcome |-> "ok", asset |-> a, fetched |-> <<>>, ret |-> a._bytes]
                ELSE Read(a, PyNone, body)
    IN  IF read.outcome # "ok"
        THEN [outcome |-> read.outcome, asset |-> read.asset, fetched |-> read.fetched,
              ret |-> PyNone, file |-> file]
        ELSE LET content == SaveContent(a, read)
             IN  [outcome |-> "ok", asset |-> read.asset, fetched |-> read.fetched,
                  ret |-> SaveReturn(content),
                  file |-> SeekAfterWrite(SinkWrite(file, content.v), seek_at_end)]

SyncAsset_save(a, file, seek_at_end, body) == AssetSave(a, file, seek_at_end, body)
AsyncAsset_save(a, file, seek_at_end, body) == AssetSave(a, file, seek_at_end, body)

\* what a path names on disk: no file, or a closed file and its content
NoFile == [exists |-> FALSE, content |-> <<>>, open |-> FALSE]

\* open(file, "ab"): the file keeps what it held
OpenAppend(disk) == [exists |-> TRUE, content |-> disk.content, open |-> TRUE]

\* open(file, "wb") / aiofiles.open(file, "wb"): created or truncated
OpenWb(disk) == [exists |-> TRUE, content |-> <<>>, open |-> TRUE]

\* f.write(content) on the file just opened
FileWrite(f, content) == [f EXCEPT !.content = @ \o content]

\* leaving the with block closes the file
FileClose(f) == [f EXCEPT !.open = FALSE]

\* SyncAsset.save / AsyncAsset.save with a path as destination: the else branch;
\* seek_at_end is not looked at, and f.name is the path that was given
AssetSaveToPath(a, file, seek_at_end, disk, body) ==
    LET read == IF Truthy(a._bytes)
                THEN [outcome |-> "ok", asset |-> a, fetched |-> <<>>, ret |-> a._bytes]
                ELSE Read(a, PyNone, body)
    IN  IF read.outcome # "ok"
        THEN [outcome |-> read.outcome, asset |-> read.asset, fetched |-> read.fetched,
              ret |-> PyNone, file |-> disk]
        ELSE LET content == SaveContent(a, read)
             IN  [outcome |-> "ok", asset |-> read.asset, fetched |-> read.fetched,
                  ret |-> file,
                  file |-> FileClose(FileWrite(OpenWb(disk), content.v))]

-----------------------------------------------------------------------------
(* client.py: NasaSyncClient, NasaAsyncClient *)

Failed(outcome, sent) ==
    [outcome |-> outcome, sent |-> sent, assets |-> <<>>, ret |-> PyNone]

Returned(sent, new) ==
    [outcome |-> "ok", sent |-> sent, assets |-> new,
     ret |-> [t |-> "list", v |-> [i \in 1..Len(new) |-> new[i]._url]]]

\* AstronomyPictures that leaves out the items whose date is malformed
AstronomyPicturesSkipMalformed(c, sent, resp) ==
    IF resp.kind # "list" THEN Failed("AttributeError", sent)
    ELSE LET good == SelectSeq(resp.items, LAMBDA item : Strptime(item.date).ok)
         IN  Returned(sent, [i \in 1..Len(good) |->
                                NewAsset(AssetClass(c), good[i].url, "full")])

\* AstronomyPicture(...) for each item of a JSON list: the date converter
\* raises ValueError on a malformed date, an item that is no dict has no .get
AstronomyPictures(c, sent, resp) ==
    IF resp.kind # "list" THEN Failed("AttributeError", sent)
    ELSE IF \E i \in 1..Len(resp.items) : ~Strptime(resp.items[i].date).ok
    THEN Failed("ValueError", sent)
    ELSE Returned(sent, [i \in 1..Len(resp.items) |->
                            NewAsset(AssetClass(c), resp.items[i].url, "full")])

\* the checks get_astronomy_picture makes on date before it sends anything
DateArgumentRaises(date) ==
    \/ Truthy(date) /\ ~(IsDatetime(date) \/ IsStr(date))
    \/ LET date_ == IF IsDatetime(date) THEN PyStr(Strftime(date)) ELSE date
       IN  Truthy(date_) /\ _validate_date(date_) = "ValueError"

NasaSyncClient_get_astronomy_picture(tok, date, resp) ==
    IF DateArgumentRaises(date) THEN Failed("ValueError", <<>>)
    ELSE LET date_ == IF IsDatetime(date) THEN PyStr(Strftime(date)) ELSE date
             req == HTTPClient_request(tok, Route("GET", APOD.v),
                                       {[k |-> "date", v |-> date_]})
         IN  IF req.outcome # "ok" THEN Failed(req.outcome, req.sent)
             ELSE IF resp.kind = "list" THEN Failed("AttributeError", req.sent)
             ELSE IF resp.kind = "error" THEN Failed("KeyError", req.sent)
             ELSE IF ~Strptime(resp.items[1].date).ok THEN Failed("ValueError", req.sent)
             ELSE Returned(req.sent, <<NewAsset("SyncAsset", resp.items[1].url, "full")>>)

\* the asynchronous variant builds AsyncAsset(url, http) without a url_state:
\* the constructor call raises TypeError once the response has arrived
NasaAsyncClient_get_astronomy_picture(tok, date, resp) ==
    IF DateArgumentRaises(date) THEN Failed("ValueError", <<>>)
    ELSE LET date_ == IF IsDatetime(date) THEN PyStr(Strftime(date)) ELSE date
             req == AsyncHTTPClient_request(tok, Route("GET", APOD.v),
                        IF Truthy(date_) THEN {[k |-> "date", v |-> date_]} ELSE {})
         IN  IF req.outcome # "ok" THEN Failed(req.outcome, req.sent)
             ELSE Failed("TypeError", req.sent)

\* _get_multi_astronomy_pictures_impl of either client, up to the request
_get_multi_astronomy_pictures_impl(c, tok, start_date, end_date) ==
    LET checked == _date_validator(start_date, end_date)
    IN  IF checked.outcome # "ok" THEN Failed(checked.outcome, <<>>)
        ELSE Request(c, tok, Route("GET", APOD.v),
                 {[k |-> "start_date", v |-> checked.start],
                  [k |-> "end_date",
                   v |-> IF c = "NasaAsyncClient" /\ ~Truthy(checked.end)
                         THEN PyStr(<<>>) ELSE checked.end]})

RangeAstronomyPictures(c, tok, start_date, end_date, resp) ==
    LET req == _get_multi_astronomy_pictures_impl(c, tok, start_date, end_date)
    IN  IF req.outcome # "ok" THEN Failed(req.outcome, req.sent)
        ELSE AstronomyPictures(c, req.sent, resp)

\* CountRaises with the upper end of the range left out
CountRaisesBelowHundred(count) ==
    \/ ~IsInt(count)
    \/ ~(1 <= count.v[1] /\ count.v[1] < 100)

\* the check get_rand_astronomy_pictures makes on count before it sends anything
CountRaises(count) ==
    \/ ~IsInt(count)
    \/ ~(1 <= count.v[1] /\ count.v[1] <= 100)

RandAstronomyPictures(c, tok, count, resp) ==
    IF CountRaises(count) THEN Failed("ValueError", <<>>)
    ELSE LET req == Request(c, tok, Route("GET", APOD.v), {[k |-> "count", v |-> count]})
         IN  IF req.outcome # "ok" THEN Failed(req.outcome, req.sent)
             ELSE AstronomyPictures(c, req.sent, resp)

\* datetime.now() of the run
Today == PyDatetime(2022, 12, 14)

\* _epic_impl: the date goes into the path, the request has no params of its own
_epic_impl(c, tok, endpoint, date) ==
    Request(c, tok,
            Route("GET", IF Truthy(date) THEN endpoint \o <<"/">> \o date.v ELSE endpoint),
            {})

EpicImages(c, tok, date, image_type, image_as, resp) ==
    LET date_ == IF Truthy(date) THEN _date_to_str(date) ELSE _date_to_str(Today)
        req == _epic_impl(c, tok, EPIC.v \o image_type.v, date_)
    IN  IF req.outcome # "ok" THEN Failed(req.outcome, req.sent)
        ELSE IF resp.kind # "list" THEN Failed("AttributeError", req.sent)
        ELSE Returned(req.sent,
                 [i \in 1..Len(resp.items) |->
                     LET u == _epic_url_image_builder(resp.items[i].identifier,
                                  resp.items[i].date, image_type, image_as)
                     IN  NewAsset(AssetClass(c), u.url, u.url_state)])

NasaSyncClient_get_range_astronomy_pictures(tok, start_date, end_date, resp) ==
    RangeAstronomyPictures("NasaSyncClient", tok, start_date, end_date, resp)
NasaAsyncClient_get_range_astronomy_pictures(tok, start_date, end_date, resp) ==
    RangeAstronomyPictures("NasaAsyncClient", tok, start_date, end_date, resp)
NasaSyncClient_get_rand_astronomy_pictures(tok, count, resp) ==
    RandAstronomyPictures("NasaSyncClient", tok, count, resp)
NasaAsyncClient_get_rand_astronomy_pictures(tok, count, resp) ==
    RandAstronomyPictures("NasaAsyncClient", tok, count, resp)
NasaSyncClient_get_epic_images(tok, date, image_type, image_as, resp) ==
    EpicImages("NasaSyncClient", tok, date, image_type, image_as, resp)
NasaAsyncClient_get_epic_images(tok, date, image_type, image_as, resp) ==
    EpicImages("NasaAsyncClient", tok, date, image_type, image_as, resp)

-----------------------------------------------------------------------------
(* What the callers pass *)

Tokens == {PyNone, PyStr(<<"DEMO_KEY">>)}

DateArgs ==
    {PyNone, PyStr(<<>>), PyStr(GoodDate), PyStr(BadDate),
     PyStr(<<"1", "3", "-", "0", "1", "-", "2", "0", "2", "2">>),
     PyStr(<<"2", "0", "2", "2", "-", "0", "2", "-", "3", "0">>),
     PyStr(<<"2", "0", "2", "2", "-", "1", "-", "1">>),
     PyDatetime(2022, 1, 2), PyInt(5)}

\* (start_date, end_date) pairs
RangeArgs ==
    {<<start_date, PyNone>> : start_date \in DateArgs}
    \cup {<<PyStr(GoodDate), end_date>> :
            end_date \in {PyStr(BadDate), PyStr(GoodDate), PyDatetime(2022, 1, 2), PyInt(5)}}

CountArgs ==
    {PyInt(n) : n \in {0, 1, 2, 100, 101}}
    \cup {PyBool(TRUE), PyFloat(1, 5), PyStr(<<"5">>), PyNone}

ExtensionArgs == FileTypes \cup {PyNone, PyStr(png.v)}

\* byte sinks (io.BytesIO) as the caller hands them to save
SeekArgs == {Omitted, PyBool(TRUE), PyBool(FALSE)}

SinkInits ==
    {[content |-> <<>>, pos |-> 0], [content |-> <<9, 9>>, pos |-> 0],
     [content |-> <<9, 9>>, pos |-> 1]}

\* the path save is given, and what it may name when save is called
SavePath == PyStr(<<"image.png">>)
PathInits == {NoFile, [exists |-> TRUE, content |-> <<9, 9>>, open |-> FALSE]}

-----------------------------------------------------------------------------
(* The actions: one per public method *)

Init ==
    /\ enum_format \in EnumFormats
    /\ client \in [cls : ClientClasses, token : Tokens]
    /\ assets = <<>>
    /\ built = <<>>
    /\ fetches = <<>>
    /\ calls = 0
    /\ last = Call("init", "none", <<>>, "ok", <<>>, <<>>, PyNone, NoResponse, 0,
                   NoAsset, NoSink, NoSink)
    /\ http = <<>>
    /\ default_params = NoDefaultParams
    /\ gen = NoGen
    /\ tasks = <<>>

\* the run's client is of class c and may make another call
ClientReady(c) == client.cls = c /\ calls < MaxCalls

\* a client method returns or raises; the caller holds the entities of the result
ClientCall(op, c, args, r, resp) ==
    /\ calls' = calls + 1
    /\ assets' = r.assets
    /\ built' = [i \in 1..Len(r.assets) |-> r.assets[i]._url]
    /\ fetches' = [i \in 1..Len(r.assets) |-> 0]
    /\ last' = Call(op, c, args, r.outcome, r.sent, <<>>, r.ret, resp, 0,
                    NoAsset, NoSink, NoSink)
    /\ UNCHANGED <<enum_format, client, http, default_params, gen, tasks>>

SyncGetAstronomyPicture ==
    /\ ClientReady("NasaSyncClient")
    /\ \E date \in DateArgs :
           \E resp \in AnswersTo(NasaSyncClient_get_astronomy_picture(
                           client.token, date, ErrorResponse),
                           ApodObjectResponses) :
               ClientCall("get_astronomy_picture", "NasaSyncClient", <<date>>,
                   NasaSyncClient_get_astronomy_picture(client.token, date, resp),
                   resp)

AsyncGetAstronomyPicture ==
    /\ ClientReady("NasaAsyncClient")
    /\ \E date \in DateArgs :
           \E resp \in AnswersTo(NasaAsyncClient_get_astronomy_picture(
                           client.token, date, ErrorResponse),
                           ApodObjectResponses) :
               ClientCall("get_astronomy_picture", "NasaAsyncClient", <<date>>,
                   NasaAsyncClient_get_astronomy_picture(client.token, date, resp),
                   resp)

SyncGetRangeAstronomyPictures ==
    /\ ClientReady("NasaSyncClient")
    /\ \E dates \in RangeArgs :
           \E resp \in AnswersTo(NasaSyncClient_get_range_astronomy_pictures(
                           client.token, dates[1], dates[2], ErrorResponse),
                           ApodListResponses) :
               ClientCall("get_range_astronomy_pictures", "NasaSyncClient", dates,
                   NasaSyncClient_get_range_astronomy_pictures(
                       client.token, dates[1], dates[2], resp), resp)

AsyncGetRangeAstronomyPictures ==
    /\ ClientReady("NasaAsyncClient")
    /\ \E dates \in RangeArgs :
           \E resp \in AnswersTo(NasaAsyncClient_get_range_astronomy_pictures(
                           client.token, dates[1], dates[2], ErrorResponse),
                           ApodListResponses) :
               ClientCall("get_range_astronomy_pictures", "NasaAsyncClient", dates,
                   NasaAsyncClient_get_range_astronomy_pictures(
                       client.token, dates[1], dates[2], resp), resp)

SyncGetRandAstronomyPictures ==
    /\ ClientReady("NasaSyncClient")
    /\ \E count \in CountArgs :
           \E resp \in AnswersTo(NasaSyncClient_get_rand_astronomy_pictures(
                           client.token, count, ErrorResponse),
                           ApodListResponses) :
               ClientCall("get_rand_astronomy_pictures", "NasaSyncClient", <<count>>,
                   NasaSyncClient_get_rand_astronomy_pictures(
                       client.token, count, resp), resp)

AsyncGetRandAstronomyPictures ==
    /\ ClientReady("NasaAsyncClient")
    /\ \E count \in CountArgs :
           \E resp \in AnswersTo(NasaAsyncClient_get_rand_astronomy_pictures(
                           client.token, count, ErrorResponse),
                           ApodListResponses) :
               ClientCall("get_rand_astronomy_pictures", "NasaAsyncClient", <<count>>,
                   NasaAsyncClient_get_rand_astronomy_pictures(
                       client.token, count, resp), resp)

EpicDateArgs == {PyNone, PyDatetime(2022, 12, 13)}

SyncGetEpicImages ==
    /\ ClientReady("NasaSyncClient")
    /\ \E date \in EpicDateArgs, image_type \in EpicImageType, image_as \in FileTypes \cup {PyNone} :
           \E resp \in AnswersTo(NasaSyncClient_get_epic_images(
                           client.token, date, image_type, image_as, ErrorResponse),
                           EpicListResponses) :
               ClientCall("get_epic_images", "NasaSyncClient", <<date, image_type, image_as>>,
                   NasaSyncClient_get_epic_images(
                       client.token, date, image_type, image_as, resp), resp)

AsyncGetEpicImages ==
    /\ ClientReady("NasaAsyncClient")
    /\ \E date \in EpicDateArgs, image_type \in EpicImageType, image_as \in FileTypes \cup {PyNone} :
           \E resp \in AnswersTo(NasaAsyncClient_get_epic_images(
                           client.token, date, image_type, image_as, ErrorResponse),
                           EpicListResponses) :
               ClientCall("get_epic_images", "NasaAsyncClient", <<date, image_type, image_as>>,
                   NasaAsyncClient_get_epic_images(
                       client.token, date, image_type, image_as, resp), resp)

RECURSIVE SumUpTo(_, _)
SumUpTo(f, n) == IF n = 0 THEN 0 ELSE f[n] + SumUpTo(f, n - 1)

\* the network fetches issued so far for the assets the caller holds
FetchesSoFar == SumUpTo(fetches, Len(fetches))

\* an asset method returns or raises; r is what it computed on assets[i]
AssetCall(op, i, args, r, file0, file) ==
    /\ FetchesSoFar + Len(r.fetched) <= MaxFetches
    /\ assets' = [assets EXCEPT ![i] = r.asset]
    /\ fetches' = [fetches EXCEPT ![i] = @ + Len(r.fetched)]
    /\ last' = Call(op, assets[i].cls, args, r.outcome, <<>>, r.fetched, r.ret,
                    NoResponse, i, assets[i], file0, file)
    /\ UNCHANGED <<enum_format, client, built, calls, http, default_params, gen, tasks>>

SyncAssetRead ==
    \E i \in 1..Len(assets), asset_as \in ExtensionArgs :
        /\ assets[i].cls = "SyncAsset"
        /\ \E body \in BodiesFor(SyncAsset_read(assets[i], asset_as, <<>>)) :
             \E r \in {SyncAsset_read(assets[i], asset_as, body)} :
                AssetCall("read", i, <<asset_as>>, r, NoSink, NoSink)

AsyncAssetRead ==
    \E i \in 1..Len(assets) :
        /\ assets[i].cls = "AsyncAsset"
        /\ \E body \in BodiesFor(AsyncAsset_read(assets[i], <<>>)) :
             \E r \in {AsyncAsset_read(assets[i], body)} :
                AssetCall("read", i, <<>>, r, NoSink, NoSink)

SyncAssetSave ==
    \E i \in 1..Len(assets), file \in SinkInits, seek_at_end \in SeekArgs :
        /\ assets[i].cls = "SyncAsset"
        /\ \E body \in BodiesFor(SyncAsset_save(assets[i], file, seek_at_end, <<>>)) :
             \E r \in {SyncAsset_save(assets[i], file, seek_at_end, body)} :
                AssetCall("save", i, <<seek_at_end>>, r, file, r.file)

AsyncAssetSave ==
    \E i \in 1..Len(assets), file \in SinkInits, seek_at_end \in SeekArgs :
        /\ assets[i].cls = "AsyncAsset"
        /\ \E body \in BodiesFor(AsyncAsset_save(assets[i], file, seek_at_end, <<>>)) :
             \E r \in {AsyncAsset_save(assets[i], file, seek_at_end, body)} :
                AssetCall("save", i, <<seek_at_end>>, r, file, r.file)

SyncAssetBytesAsset ==
    \E i \in 1..Len(assets) :
        /\ assets[i].cls = "SyncAsset"
        /\ \E body \in BodiesFor(SyncAsset_bytes_asset(assets[i], <<>>)) :
             \E r \in {SyncAsset_bytes_asset(assets[i], body)} :
                AssetCall("bytes_asset", i, <<>>, r, NoSink, NoSink)

AsyncAssetBytesAsset ==
    \E i \in 1..Len(assets) :
        /\ assets[i].cls = "AsyncAsset"
        /\ \E r \in {AsyncAsset_bytes_asset(assets[i])} :
                AssetCall("bytes_asset", i, <<>>, r, NoSink, NoSink)

\* save("image.png", seek_at_end=False)
SyncAssetSaveToPath ==
    \E i \in 1..Len(assets), disk \in PathInits :
        /\ assets[i].cls = "SyncAsset"
        /\ \E body \in BodiesFor(AssetSaveToPath(assets[i], SavePath, PyBool(FALSE),
                                                  disk, <<>>)) :
             \E r \in {AssetSaveToPath(assets[i], SavePath, PyBool(FALSE), disk, body)} :
                AssetCall("save_to_path", i, <<SavePath, PyBool(FALSE)>>, r, disk, r.file)

AsyncAssetSaveToPath ==
    \E i \in 1..Len(assets), disk \in PathInits :
        /\ assets[i].cls = "AsyncAsset"
        /\ \E body \in BodiesFor(AssetSaveToPath(assets[i], SavePath, PyBool(FALSE),
                                                  disk, <<>>)) :
             \E r \in {AssetSaveToPath(assets[i], SavePath, PyBool(FALSE), disk, body)} :
                AssetCall("save_to_path", i, <<SavePath, PyBool(FALSE)>>, r, disk, r.file)

Next ==
    \/ SyncGetAstronomyPicture
    \/ AsyncGetAstronomyPicture
    \/ SyncGetRangeAstronomyPictures
    \/ AsyncGetRangeAstronomyPictures
    \/ SyncGetRandAstronomyPictures
    \/ AsyncGetRandAstronomyPictures
    \/ SyncGetEpicImages
    \/ AsyncGetEpicImages
    \/ SyncAssetRead
    \/ AsyncAssetRead
    \/ SyncAssetSave
    \/ AsyncAssetSave
    \/ SyncAssetSaveToPath
    \/ AsyncAssetSaveToPath
    \/ SyncAssetBytesAsset
    \/ AsyncAssetBytesAsset

Spec == Init /\ [][Next]_vars

-----------------------------------------------------------------------------
(* The EPIC url builder on its own: every step applies it to some arguments *)

Identifiers == {PyStr(<<"4", "2">>), PyStr(<<"7">>),
                PyStr(<<"2", "0", "2", "2", "1", "2", "1", "3">>)}

EpicDates ==
    {EpicDate,
     PyStr(<<"2", "0", "1", "5", "-", "1", "0", "-", "3", "1", " ",
             "0", "0", ":", "3", "6", ":", "3", "3">>),
     PyStr(<<"2", "0", "2", "4", "-", "0", "2", "-", "2", "9", " ",
             "2", "3", ":", "5", "9", ":", "5", "9">>)}

BuildEpicUrl ==
    \E identifier \in Identifiers, date \in EpicDates, image_type \in EpicImageType,
       image_as \in FileTypes \cup {PyNone} :
        \E u \in {_epic_url_image_builder(identifier, date, image_type, image_as)} :
            /\ last' = Call("_epic_url_image_builder", "_BaseClient",
                            <<identifier, date, image_type, image_as>>, "ok", <<>>, <<>>,
                            u.url, NoResponse, 0,
                            NewAsset("none", u.url, u.url_state), NoSink, NoSink)
            /\ UNCHANGED <<enum_format, client, assets, built, fetches, calls, http,
                           default_params, gen, tasks>>

BuilderSpec == Init /\ [][BuildEpicUrl]_vars

-----------------------------------------------------------------------------
(* The transports of two clients, each client run by a thread or task of its own *)

\* most transport requests started in one run
MaxRequests == 2

KeyA == PyStr(<<"KEY_A">>)
KeyB == PyStr(<<"KEY_B">>)

\* no request of the transport is between its store and its send
NoPending == [kind |-> "none", own |-> {}]

\* HTTPClient.__init__ / AsyncHTTPClient.__init__: _session_closed is the state
\* of the session object, _closed the attribute only HTTPClient has;
\* close_called records that close() ran on the transport
NewTransport(cls, token) ==
    [cls |-> cls, token |-> token, _closed |-> FALSE, _session_closed |-> FALSE,
     close_called |-> FALSE, pending |-> NoPending]

\* the is_closed property of either transport
is_closed(h) == IF h.cls = "HTTPClient" THEN h._closed ELSE h._session_closed

\* HTTPClient.close with self._closed flipped instead of set
HTTPClient_closeToggles(h) == [h EXCEPT !._session_closed = TRUE, !._closed = ~@]

\* HTTPClient.close
HTTPClient_close(h) == [h EXCEPT !._session_closed = TRUE, !._closed = TRUE]

\* AsyncHTTPClient.close: ClientSession.close() leaves the session closed
AsyncHTTPClient_close(h) == [h EXCEPT !._session_closed = TRUE]

\* the two ways the clients call request: _astronomy_request_impl passes a dict
\* of its own, _epic_impl passes none and so gets the default one
RequestKinds == {"apod", "epic"}
RouteOf(kind) ==
    IF kind = "apod" THEN Route("GET", APOD.v) ELSE Route("GET", EPIC.v \o natural.v)
OwnParams == {[k |-> "date", v |-> PyStr(GoodDate)]}

\* what the service answers a request with: a content type and a body text
JsonType == "application/json"
JsonText == PyStr(<<"{", "}">>)
HtmlText == PyStr(<<"<html>">>)
Answers ==
    {[kind |-> "http", items |-> <<>>, content_type |-> ct, text |-> tx] :
        ct \in {JsonType, "text/html"}, tx \in {JsonText, HtmlText}}

\* json.loads on the body text
json_loads(text) ==
    IF text = JsonText THEN [ok |-> TRUE, value |-> [t |-> "dict", v |-> <<>>]]
    ELSE [ok |-> FALSE, value |-> PyNone]

\* HTTPClient.request once the response is there: response.json(), and on any
\* exception the Response object itself
HTTPClient_response(answer) ==
    LET decoded == json_loads(answer.text)
    IN  IF decoded.ok THEN [outcome |-> "ok", ret |-> decoded.value]
        ELSE [outcome |-> "ok", ret |-> [t |-> "Response", v |-> answer.text.v]]

\* AsyncHTTPClient.request once the response is there: resp.json() raises
\* ContentTypeError for a content type that is not JSON, which is caught, and
\* lets the decoder's error through for a body that is not JSON
AsyncHTTPClient_response(answer) ==
    LET decoded == json_loads(answer.text)
    IN  IF answer.content_type # JsonType THEN [outcome |-> "ok", ret |-> answer.text]
        ELSE IF decoded.ok THEN [outcome |-> "ok", ret |-> decoded.value]
        ELSE [outcome |-> "JSONDecodeError", ret |-> PyNone]

TransportTokens(i) == {PyNone, PyStr(<<>>), IF i = 1 THEN KeyA ELSE KeyB}
UrlArgs == {PyNone, PyStr(<<>>), Url1}

TransportInit ==
    /\ enum_format = "value"
    /\ client = [cls |-> "NasaSyncClient", token |-> PyNone]
    /\ assets = <<>>
    /\ built = <<>>
    /\ fetches = <<>>
    /\ calls = 0
    /\ last = Call("init", "none", <<>>, "ok", <<>>, <<>>, PyNone, NoResponse, 0,
                   NoAsset, NoSink, NoSink)
    /\ \E c1 \in {"HTTPClient", "AsyncHTTPClient"}, c2 \in {"HTTPClient", "AsyncHTTPClient"},
          t1 \in TransportTokens(1), t2 \in TransportTokens(2) :
           http = <<NewTransport(c1, t1), NewTransport(c2, t2)>>
    /\ default_params = NoDefaultParams
    /\ gen = NoGen
    /\ tasks = <<>>

\* a transport method returns or raises
TransportCall(op, i, args, outcome, sent, fetched, ret, answer) ==
    /\ last' = Call(op, http[i].cls, args, outcome, sent, fetched, ret, answer, i,
                    http[i], NoSink, NoSink)
    /\ UNCHANGED <<enum_format, client, assets, built, fetches, gen, tasks>>

\* HTTPClient.request up to params["api_key"] = token; another thread may run
\* before the session builds the request from params
HTTPClientRequestStore(i) ==
    /\ http[i].cls = "HTTPClient"
    /\ http[i].pending = NoPending
    /\ calls < MaxRequests
    /\ calls' = calls + 1
    /\ \E kind \in RequestKinds :
        LET params == IF kind = "epic" THEN default_params.HTTPClient ELSE OwnParams
            r == HTTPClient_request(http[i].token, RouteOf(kind), params)
        IN  IF r.outcome # "ok"
            THEN /\ TransportCall("request", i, <<kind>>, r.outcome, <<>>, <<>>,
                                  PyNone, NoResponse)
                 /\ UNCHANGED <<http, default_params>>
            ELSE /\ http' = [http EXCEPT ![i].pending =
                                [kind |-> kind, own |-> r.sent[1].params]]
                 /\ default_params' =
                        IF kind = "epic"
                        THEN [default_params EXCEPT !.HTTPClient = r.sent[1].params]
                        ELSE default_params
                 /\ UNCHANGED <<enum_format, client, assets, built, fetches, last, gen, tasks>>

\* HTTPClient.request from self._session.request(...), which reads params, to
\* the return
HTTPClientRequestSend(i) ==
    /\ http[i].cls = "HTTPClient"
    /\ http[i].pending # NoPending
    /\ \E answer \in Answers :
        LET kind == http[i].pending.kind
            route == RouteOf(kind)
            params == IF kind = "epic" THEN default_params.HTTPClient
                      ELSE http[i].pending.own
            r == HTTPClient_response(answer)
        IN  /\ TransportCall("request", i, <<kind>>, r.outcome,
                             <<[method |-> route.method, url |-> route.url,
                                params |-> params]>>,
                             <<>>, r.ret, answer)
            /\ http' = [http EXCEPT ![i].pending = NoPending]
            /\ UNCHANGED <<default_params, calls>>

\* AsyncHTTPClient.request: no await between the store and the construction of
\* the request; a closed session raises RuntimeError instead of sending
AsyncHTTPClientRequest(i) ==
    /\ http[i].cls = "AsyncHTTPClient"
    /\ calls < MaxRequests
    /\ calls' = calls + 1
    /\ \E kind \in RequestKinds :
        LET params == IF kind = "epic" THEN default_params.AsyncHTTPClient
                      ELSE OwnParams
            r == AsyncHTTPClient_request(http[i].token, RouteOf(kind), params)
        IN  IF r.outcome # "ok"
            THEN /\ TransportCall("request", i, <<kind>>, r.outcome, <<>>, <<>>,
                                  PyNone, NoResponse)
                 /\ UNCHANGED <<http, default_params>>
            ELSE /\ default_params' =
                        IF kind = "epic"
                        THEN [default_params EXCEPT !.AsyncHTTPClient = r.sent[1].params]
                        ELSE default_params
                 /\ UNCHANGED http
                 /\ IF http[i]._session_closed
                    THEN TransportCall("request", i, <<kind>>, "RuntimeError", <<>>,
                                       <<>>, PyNone, NoResponse)
                    ELSE \E answer \in Answers :
                            \E resp \in {AsyncHTTPClient_response(answer)} :
                                TransportCall("request", i, <<kind>>, resp.outcome,
                                              r.sent, <<>>, resp.ret, answer)

HTTPClientGetImageAsBytes(i) ==
    /\ http[i].cls = "HTTPClient"
    /\ \E url \in UrlArgs :
        \E body \in BodiesFor(HTTPClient_get_image_as_bytes(url, <<>>)) :
            \E r \in {HTTPClient_get_image_as_bytes(url, body)} :
                TransportCall("get_image_as_bytes", i, <<url>>, "ok", <<>>, r.fetched,
                              r.content, NoResponse)
    /\ UNCHANGED <<http, default_params, calls>>

AsyncHTTPClientGetImageAsBytes(i) ==
    /\ http[i].cls = "AsyncHTTPClient"
    /\ \E url \in UrlArgs :
        \E body \in BodiesFor(AsyncHTTPClient_get_image_as_bytes(url, <<>>)) :
            \E r \in {AsyncHTTPClient_get_image_as_bytes(url, body)} :
                TransportCall("get_image_as_bytes", i, <<url>>, "ok", <<>>, r.fetched,
                              r.content, NoResponse)
    /\ UNCHANGED <<http, default_params, calls>>

\* NasaSyncClient.close
NasaSyncClientClose(i) ==
    /\ http[i].cls = "HTTPClient"
    /\ TransportCall("close", i, <<>>, "ok", <<>>, <<>>, PyNone, NoResponse)
    /\ http' = [http EXCEPT ![i] = [HTTPClient_close(@) EXCEPT !.close_called = TRUE]]
    /\ UNCHANGED <<default_params, calls>>

\* NasaAsyncClient.close
NasaAsyncClientClose(i) ==
    /\ http[i].cls = "AsyncHTTPClient"
    /\ TransportCall("close", i, <<>>, "ok", <<>>, <<>>, PyNone, NoResponse)
    /\ http' = [http EXCEPT ![i] = [AsyncHTTPClient_close(@) EXCEPT !.close_called = TRUE]]
    /\ UNCHANGED <<default_params, calls>>

\* what a with block may be left by
Exits == {PyNone, PyStr(<<"KeyboardInterrupt">>)}

\* NasaSyncClient.__exit__(type, value, traceback): the block is left, by the
\* exception exc if there is one, which goes on to the caller
NasaSyncClient__exit__(i) ==
    /\ http[i].cls = "HTTPClient"
    /\ \E exc \in Exits :
        TransportCall("__exit__", i, <<exc>>,
                      IF exc = PyNone THEN "ok" ELSE exc.v[1], <<>>, <<>>, PyNone,
                      NoResponse)
    /\ http' = [http EXCEPT ![i] = [HTTPClient_close(@) EXCEPT !.close_called = TRUE]]
    /\ UNCHANGED <<default_params, calls>>

\* NasaAsyncClient.__aexit__(type, value, traceback)
NasaAsyncClient__aexit__(i) ==
    /\ http[i].cls = "AsyncHTTPClient"
    /\ \E exc \in Exits :
        TransportCall("__aexit__", i, <<exc>>,
                      IF exc = PyNone THEN "ok" ELSE exc.v[1], <<>>, <<>>, PyNone,
                      NoResponse)
    /\ http' = [http EXCEPT ![i] = [AsyncHTTPClient_close(@) EXCEPT !.close_called = TRUE]]
    /\ UNCHANGED <<default_params, calls>>

TransportNext ==
    \E i \in 1..Len(http) :
        \/ HTTPClientRequestStore(i)
        \/ HTTPClientRequestSend(i)
        \/ AsyncHTTPClientRequest(i)
        \/ HTTPClientGetImageAsBytes(i)
        \/ AsyncHTTPClientGetImageAsBytes(i)
        \/ NasaSyncClientClose(i)
        \/ NasaAsyncClientClose(i)
        \/ NasaSyncClient__exit__(i)
        \/ NasaAsyncClient__aexit__(i)

TransportSpec == TransportInit /\ [][TransportNext]_vars

-----------------------------------------------------------------------------
(* The sequences get_gen_astronomy_pictures returns *)

\* a call that validates its arguments before it hands out the generator
NewGenValidated(c, args) ==
    IF _date_validator(args[1], args[2]).outcome # "ok"
    THEN [state |-> "done", cls |-> c, args |-> args, items |-> <<>>, pos |-> 0,
          sent |-> <<>>, yielded |-> <<>>, ended |-> "raised"]
    ELSE [state |-> "created", cls |-> c, args |-> args, items |-> <<>>, pos |-> 0,
          sent |-> <<>>, yielded |-> <<>>, ended |-> "no"]

\* the generator object as the call returns it: no line of the body has run;
\* sent are the requests its body issued so far, yielded the urls of the
\* entities it handed out, ended how its body was left
NewGen(c, args) ==
    [state |-> "created", cls |-> c, args |-> args, items |-> <<>>, pos |-> 0,
     sent |-> <<>>, yielded |-> <<>>, ended |-> "no"]

\* what next() raises on a generator that is finished
StopOf(c) == IF c = "NasaSyncClient" THEN "StopIteration" ELSE "StopAsyncIteration"

\* a generator whose body starts over once it was left
GeneratorRewinds(g, how) == [g EXCEPT !.state = "created", !.ended = how]

\* the body of the generator is left, by the end of the loop or by an
\* exception: the generator is finished
GeneratorReturn(g, how) == [g EXCEPT !.state = "done", !.ended = how]

\* the for loop from the item after g.pos to the next yield
GeneratorResume(g) ==
    IF g.pos = Len(g.items)
    THEN [gen |-> GeneratorReturn(g, "exhausted"), outcome |-> StopOf(g.cls),
          ret |-> PyNone]
    ELSE LET item == g.items[g.pos + 1]
         IN  IF ~Strptime(item.date).ok
             THEN [gen |-> GeneratorReturn(g, "raised"), outcome |-> "ValueError",
                   ret |-> PyNone]
             ELSE [gen |-> [g EXCEPT !.pos = @ + 1, !.state = "suspended",
                                     !.yielded = Append(@, item.url)],
                   outcome |-> "ok", ret |-> item.url]

\* next(g) / await g.__anext__(): the first one runs the body from its first
\* line, so the validation and the request happen here
GeneratorNext(g, tok, resp) ==
    IF g.state = "done"
    THEN [gen |-> g, outcome |-> StopOf(g.cls), ret |-> PyNone]
    ELSE IF g.state = "suspended" THEN GeneratorResume(g)
    ELSE LET req == _get_multi_astronomy_pictures_impl(g.cls, tok, g.args[1], g.args[2])
             asked == [g EXCEPT !.sent = @ \o req.sent]
         IN  IF req.outcome # "ok"
             THEN [gen |-> GeneratorReturn(asked, "raised"), outcome |-> req.outcome,
                   ret |-> PyNone]
             ELSE IF resp.kind # "list"
             THEN [gen |-> GeneratorReturn(asked, "raised"),
                   outcome |-> "AttributeError", ret |-> PyNone]
             ELSE GeneratorResume([asked EXCEPT !.items = resp.items, !.pos = 0])

\* get_gen_astronomy_pictures(start_date, end_date) returns a generator
GetGenAstronomyPictures(c) ==
    /\ ClientReady(c)
    /\ \E dates \in RangeArgs :
        /\ gen' = NewGen(c, dates)
        /\ last' = Call("get_gen_astronomy_pictures", c, dates, "ok", <<>>, <<>>,
                        PyNone, NoResponse, 0, NoGen, NoSink, NoSink)
    /\ calls' = calls + 1
    /\ UNCHANGED <<enum_format, client, assets, built, fetches, http, default_params,
                   tasks>>

SyncGetGenAstronomyPictures == GetGenAstronomyPictures("NasaSyncClient")
AsyncGetGenAstronomyPictures == GetGenAstronomyPictures("NasaAsyncClient")

\* the caller asks the generator for its next entity
GeneratorAdvance(c) ==
    /\ gen.state # "none"
    /\ gen.cls = c
    /\ \E resp \in (IF /\ gen.state = "created"
                       /\ GeneratorNext(gen, client.token, ErrorResponse).gen.sent # <<>>
                    THEN ApodListResponses ELSE {NoResponse}) :
        \E r \in {GeneratorNext(gen, client.token, resp)} :
            /\ gen' = r.gen
            /\ last' = Call("__next__", c, <<>>, r.outcome,
                            SubSeq(r.gen.sent, Len(gen.sent) + 1, Len(r.gen.sent)),
                            <<>>, r.ret, resp, 0, gen, NoSink, NoSink)
    /\ UNCHANGED <<enum_format, client, assets, built, fetches, calls, http,
                   default_params, tasks>>

SyncGeneratorNext == GeneratorAdvance("NasaSyncClient")
AsyncGeneratorNext == GeneratorAdvance("NasaAsyncClient")

GenNext ==
    \/ SyncGetGenAstronomyPictures
    \/ AsyncGetGenAstronomyPictures
    \/ SyncGeneratorNext
    \/ AsyncGeneratorNext

GenSpec == Init /\ [][GenNext]_vars

-----------------------------------------------------------------------------
(* Tasks of one event loop that read one AsyncAsset *)

\* the tasks that call read() on the asset
MaxTasks == 3

\* a task that has not called read(); got are the bytes its fetch brought, ret
\* what its read() returned, order its place among the reads that have returned
IdleTask == [pc |-> "idle", got |-> PyNone, ret |-> PyNone, order |-> 0]

\* self._bytes = <the awaited bytes> that keeps a cache that is already there
AsyncAsset_read_resumeKeepsFirst(a, content) ==
    IF a._bytes # PyNone THEN [asset |-> a, ret |-> a._bytes]
    ELSE [asset |-> [a EXCEPT !._bytes = content], ret |-> content]

\* AsyncAsset.read from the moment the awaited get_image_as_bytes returns content:
\* self._bytes = content; return self._bytes, with no await in between
AsyncAsset_read_resume(a, content) ==
    LET stored == [a EXCEPT !._bytes = content]
    IN  [asset |-> stored, ret |-> stored._bytes]

ConcurrentReadInit ==
    /\ enum_format = "value"
    /\ client = [cls |-> "NasaAsyncClient", token |-> PyStr(<<"DEMO_KEY">>)]
    /\ \E url \in {Url1, PyStr(<<>>)} : assets = <<NewAsset("AsyncAsset", url, "full")>>
    /\ built = <<assets[1]._url>>
    /\ fetches = <<0>>
    /\ calls = 1
    /\ last = Call("init", "none", <<>>, "ok", <<>>, <<>>, PyNone, NoResponse, 0,
                   NoAsset, NoSink, NoSink)
    /\ http = <<>>
    /\ default_params = NoDefaultParams
    /\ gen = NoGen
    /\ tasks = [t \in 1..MaxTasks |-> IdleTask]

\* the reads that have returned so far
Returns == Cardinality({t \in 1..Len(tasks) : tasks[t].pc = "done"})

\* the awaited get_image_as_bytes of task t returns content and the task runs
\* to the end of read()
TaskReturns(t, content, fetched) ==
    \E r \in {AsyncAsset_read_resume(assets[1], content)} :
        /\ assets' = [assets EXCEPT ![1] = r.asset]
        /\ tasks' = [tasks EXCEPT ![t] = [pc |-> "done", got |-> content, ret |-> r.ret,
                                          order |-> Returns + 1]]
        /\ last' = Call("read", "AsyncAsset", <<>>, "ok", <<>>, fetched, r.ret,
                        NoResponse, 1, assets[1], NoSink, NoSink)

\* task t calls read(): get_image_as_bytes is awaited with the url of the asset;
\* for an empty url it returns b"" without giving up control, otherwise the GET
\* is issued and the task waits for the body
TaskCallsRead(t) ==
    /\ tasks[t].pc = "idle"
    /\ IF ~Truthy(assets[1]._url)
       THEN /\ TaskReturns(t, AsyncHTTPClient_get_image_as_bytes(assets[1]._url,
                                                                  <<>>).content, <<>>)
            /\ UNCHANGED fetches
       ELSE /\ tasks' = [tasks EXCEPT ![t].pc = "fetching"]
            /\ fetches' = [fetches EXCEPT ![1] = @ + 1]
            /\ UNCHANGED <<assets, last>>
    /\ UNCHANGED <<enum_format, client, built, calls, http, default_params, gen>>

\* the body of the GET of task t has arrived
TaskFetchCompletes(t) ==
    /\ tasks[t].pc = "fetching"
    /\ \E body \in Bodies :
        TaskReturns(t, AsyncHTTPClient_get_image_as_bytes(assets[1]._url, body).content,
                    <<assets[1]._url>>)
    /\ UNCHANGED <<enum_format, client, built, fetches, calls, http, default_params,
                   gen>>

ConcurrentReadNext ==
    \E t \in 1..Len(tasks) :
        \/ TaskCallsRead(t)
        \/ TaskFetchCompletes(t)

ConcurrentReadSpec == ConcurrentReadInit /\ [][ConcurrentReadNext]_vars

-----------------------------------------------------------------------------
(* The entities on their own *)

\* the media_type a payload may carry; None where it carries none
MediaTypes ==
    {PyNone, PyStr(<<"image">>), PyStr(<<"video">>), PyStr(<<"Image">>), PyStr(<<>>)}

\* AstronomyPicture(...): the attrs constructor runs the date converter
AstronomyPicture(item, media_type, image) ==
    IF ~Strptime(item.date).ok
    THEN [outcome |-> "ValueError", media_type |-> PyNone, url |-> PyNone,
          image |-> NoAsset]
    ELSE [outcome |-> "ok", media_type |-> media_type, url |-> item.url,
          image |-> image]

\* is_video that asks for the media type "video"
AstronomyPicture_is_videoOnly(p) == p.media_type = PyStr(<<"video">>)

\* AstronomyPicture.is_video
AstronomyPicture_is_video(p) == ~(p.media_type = PyStr(<<"image">>))

\* AstronomyPicture.is_image
AstronomyPicture_is_image(p) == p.media_type = PyStr(<<"image">>)

\* EpicImage.url of the EpicImage whose image is the asset image: the property
\* returns the empty string whatever the entity holds
EpicImage_url(image) == PyStr(<<>>)

\* an AstronomyPicture is built from a payload and its two properties are read
BuildAstronomyPicture ==
    \E c \in ClientClasses, item \in ApodItems, media_type \in MediaTypes :
        \E p \in {AstronomyPicture(item, media_type,
                                   NewAsset(AssetClass(c), item.url, "full"))} :
            /\ last' = Call("AstronomyPicture", c, <<item.url, media_type>>, p.outcome,
                            <<>>, <<>>,
                            IF p.outcome = "ok"
                            THEN [t |-> "properties",
                                  is_image |-> AstronomyPicture_is_image(p),
                                  is_video |-> AstronomyPicture_is_video(p)]
                            ELSE PyNone,
                            NoResponse, 0, p.image, NoSink, NoSink)
            /\ UNCHANGED <<enum_format, client, assets, built, fetches, calls, http,
                           default_params, gen, tasks>>

PictureSpec == Init /\ [][BuildAstronomyPicture]_vars

-----------------------------------------------------------------------------
(* The claims *)

\* s is a calendar date written YYYY-MM-DD
IsYmd(s) ==
    /\ Len(s) = 10
    /\ \A i \in {1, 2, 3, 4, 6, 7, 9, 10} : IsDigit(s[i])
    /\ s[5] = "-" /\ s[8] = "-"
    /\ LET y == ToNat(SubSeq(s, 1, 4))
           m == ToNat(SubSeq(s, 6, 7))
           d == ToNat(SubSeq(s, 9, 10))
       IN  y >= 1 /\ m \in 1..12 /\ d \in 1..DaysInMonth(y, m)

MalformedDateArg(x) == x.t = "str" /\ ~IsYmd(x.v)

\* C1: a read() on an asset whose bytes are already cached issues no network
\* fetch and returns the cached bytes, so that no asset is ever fetched more
\* than once and two reads return identical bytes.
C1_ReadIsMemoized ==
    /\ \A i \in 1..Len(assets) : fetches[i] <= 1
    /\ (last.op = "read" /\ last.outcome = "ok" /\ last.before._bytes # PyNone)
         => (last.fetched = <<>> /\ last.ret = last.before._bytes)

\* C2: read() on an asset tagged partial, called without a FileTypes extension,
\* raises ValueError and fetches nothing, on a SyncAsset and on an AsyncAsset.
C2_PartialReadRaises ==
    (/\ last.op = "read"
     /\ last.before.url_state = "partial"
     /\ ~(last.args # <<>> /\ last.args[1].t = "FileTypes"))
        => (last.outcome = "ValueError" /\ last.fetched = <<>>)

\* C3: get_astronomy_picture, on a client constructed with a token, given a
\* string that is no valid YYYY-MM-DD date (the empty string included) raises
\* ValueError and has sent no request.
C3_MalformedDateRaises ==
    (/\ last.op = "get_astronomy_picture"
     /\ Truthy(client.token)
     /\ MalformedDateArg(last.args[1]))
        => (last.outcome = "ValueError" /\ last.sent = <<>>)

\* C4: get_range_astronomy_pictures, on a client constructed with a token,
\* given a string start_date or end_date that is not in YYYY-MM-DD format raises
\* ValueError and has sent no request.
C4_RangeDatesValidated ==
    (/\ last.op = "get_range_astronomy_pictures"
     /\ Truthy(client.token)
     /\ (MalformedDateArg(last.args[1]) \/ MalformedDateArg(last.args[2])))
        => (last.outcome = "ValueError" /\ last.sent = <<>>)

\* C5: get_rand_astronomy_pictures(count), on a client constructed with a token:
\* for an int count in 1..100 exactly one request is sent and it carries
\* count=count, and the list returned has one picture per item of the response,
\* in order; for count = 0, count = 101 or a count that is no int it raises
\* ValueError and sends nothing.
C5_RandCount ==
    last.op = "get_rand_astronomy_pictures" =>
        LET count == last.args[1]
            inRange == IsInt(count) /\ count.v[1] \in 1..100
        IN  /\ (inRange /\ Truthy(client.token)) =>
                  /\ Len(last.sent) = 1
                  /\ [k |-> "count", v |-> count] \in last.sent[1].params
                  /\ \A kv \in last.sent[1].params : kv.k = "count" => kv.v = count
                  /\ last.outcome = "ok" =>
                        /\ last.resp.kind = "list"
                        /\ Len(last.ret.v) = Len(last.resp.items)
                        /\ \A i \in 1..Len(last.ret.v) :
                              last.ret.v[i] = last.resp.items[i].url
                  /\ (last.resp.kind = "list"
                      /\ \A i \in 1..Len(last.resp.items) : IsYmd(last.resp.items[i].date))
                        => last.outcome = "ok"
            /\ ~inRange => (last.outcome = "ValueError" /\ last.sent = <<>>)

C5_Witness ==
    /\ last.op = "get_rand_astronomy_pictures"
    /\ last.args[1] = PyInt(100)
    /\ last.outcome = "ok"
    /\ Len(last.sent) = 1
    /\ Len(last.ret.v) = 2

\* the url the specification gives for an EPIC image
ExpectedEpicUrl(identifier, date, image_type, ext) ==
    LET isNatural == image_type \in {natural, natural_date}
    IN  <<"https://epic.gsfc.nasa.gov", "/archive/",
          IF isNatural THEN "natural" ELSE "enhanced", "/">>
        \o SubSeq(date.v, 1, 4) \o <<"/">> \o SubSeq(date.v, 6, 7) \o <<"/">>
        \o SubSeq(date.v, 9, 10) \o <<"/">> \o ext.v
        \o <<"/", IF isNatural THEN "epic_1b" ELSE "epic_RGB", "_">>
        \o identifier.v \o <<".">> \o ext.v

\* C6: for every identifier, date "YYYY-MM-DD HH:MM:SS", image type and
\* extension, the builder returns exactly
\* {EPIC image base}/archive/{kind}/YYYY/MM/DD/{ext}/{prefix}_{identifier}.{ext},
\* kind natural and prefix epic_1b for natural and natural/date, kind enhanced
\* and prefix epic_RGB for enhanced and enhanced/date.
C6_EpicUrl ==
    (last.op = "_epic_url_image_builder" /\ last.args[4] \in FileTypes)
        => last.ret = PyStr(ExpectedEpicUrl(last.args[1], last.args[2],
                                            last.args[3], last.args[4]))

HasPlaceholder(url) == IsSubstring(<<"{", "}">>, url.v)

\* C7: an asset get_epic_images returns is tagged partial if and only if no
\* extension was given, i.e. if and only if its url holds the placeholder.
C7_PartialIffNoExtension ==
    (last.op = "get_epic_images" /\ last.outcome = "ok") =>
        \A i \in 1..Len(assets) :
            /\ (assets[i].url_state = "partial") <=> (last.args[3] = PyNone)
            /\ (assets[i].url_state = "partial") <=> HasPlaceholder(assets[i]._url)

\* C8: assets constructed with the same url compare equal and assets
\* constructed with different urls compare unequal, whatever their caches hold,
\* and hash(asset) returns a value that is the same for assets of the same url.
C8_EqualAndHashByUrl ==
    \A i \in 1..Len(assets), j \in 1..Len(assets) :
        /\ (built[i] = built[j]) <=> Asset__eq__(assets[i], assets[j])
        /\ Asset__hash__(assets[i]).outcome = "ok"
        /\ (built[i] = built[j]) => Asset__hash__(assets[i]) = Asset__hash__(assets[j])

\* the sink holds what it held, with b written over it from position file0.pos
Written(file0, file, b) ==
    LET p == file0.pos
        n == Len(b)
        longest == IF p + n > Len(file0.content) THEN p + n ELSE Len(file0.content)
    IN  /\ Len(file.content) = longest
        /\ \A i \in 1..longest :
              file.content[i] = IF i > p /\ i <= p + n THEN b[i - p] ELSE file0.content[i]

C10_SinkPosition ==
    (last.op = "save" /\ last.outcome = "ok") =>
        IF last.args[1] = PyBool(FALSE)
        THEN last.file.pos = last.file0.pos + last.ret.v[1]
        ELSE last.file.pos = 0

C10_Witness ==
    /\ last.op = "save"
    /\ last.outcome = "ok"
    /\ last.args[1] = Omitted
    /\ last.file0.pos = 1
    /\ last.ret = PyInt(1)
    /\ last.file.pos = 0

\* C11: save to a path leaves a closed file at the path holding exactly the
\* asset's bytes, nothing of what the file held before, and returns the path; a
\* save that raises leaves the disk as it was.
C11_SaveToPath ==
    last.op = "save_to_path" =>
        IF last.outcome = "ok"
        THEN /\ last.file.exists
             /\ ~last.file.open
             /\ last.file.content = assets[last.idx]._bytes.v
             /\ last.ret = last.args[1]
        ELSE last.file = last.file0

\* get_astronomy_picture on the sync client, then image.save(path) over a file
\* that held two other bytes
C11_Witness ==
    /\ last.op = "save_to_path"
    /\ last.cls = "SyncAsset"
    /\ last.outcome = "ok"
    /\ last.before.url_state = "full"
    /\ last.file0.content = <<9, 9>>
    /\ last.file.content = <<1>>
    /\ last.ret = SavePath

\* C12: a client method whose metadata request was answered with a JSON object
\* carrying a top-level error key does not raise: it returns to the caller.
C12_ErrorJsonSurfaced ==
    last.resp.kind = "error" => last.outcome = "ok"

\* C17: for the date argument and the upstream answer of a get_astronomy_picture
\* call, the synchronous and the asynchronous method both return, with an asset
\* bound to the same url, or both fail.
C17_SameContract ==
    last.op = "get_astronomy_picture" =>
        LET sync == NasaSyncClient_get_astronomy_picture(
                        client.token, last.args[1], last.resp)
            async == NasaAsyncClient_get_astronomy_picture(
                        client.token, last.args[1], last.resp)
        IN  /\ (sync.outcome = "ok") <=> (async.outcome = "ok")
            /\ sync.outcome = "ok" => sync.ret = async.ret

ListOps ==
    {"get_range_astronomy_pictures", "get_rand_astronomy_pictures", "get_epic_images"}
ApodListOps == {"get_range_astronomy_pictures", "get_rand_astronomy_pictures"}

\* C18 as stated: every call of a list method issues exactly one metadata request.
C18_ExactlyOneRequest ==
    last.op \in ListOps => Len(last.sent) = 1

\* C18: a call of a list method issues at most one metadata request; if it
\* returns, it issued exactly one, the answer was a list and the caller holds one
\* entity per item of it, in the order of the answer; if it raises, the caller
\* holds no entity at all.
C18_SingleRequestWholeList ==
    last.op \in ListOps =>
        /\ Len(last.sent) <= 1
        /\ IF last.outcome = "ok"
           THEN /\ Len(last.sent) = 1
                /\ last.resp.kind = "list"
                /\ Len(assets) = Len(last.resp.items)
                /\ last.op \in ApodListOps =>
                       \A i \in 1..Len(assets) : assets[i]._url = last.resp.items[i].url
           ELSE assets = <<>>

\* a list method returned the entities of an answer of two different items
C18_Witness ==
    /\ last.op \in ApodListOps
    /\ last.outcome = "ok"
    /\ Len(last.resp.items) = 2
    /\ Len(assets) = 2
    /\ assets[1]._url # assets[2]._url

\* C13: a transport request whose response body is not JSON returns the body
\* text of the response and does not raise.
C13_UndecodableReturnsText ==
    (last.op = "request" /\ last.sent # <<>> /\ ~json_loads(last.resp.text).ok) =>
        /\ last.outcome = "ok"
        /\ last.ret = last.resp.text

\* C14: a request on a transport whose token is None or empty raises and sends
\* nothing: it never gets as far as the store into params, so no such request is
\* ever waiting to be sent and no falsy api_key is ever in the default dict; a
\* get_image_as_bytes returns on every transport, whatever its token.
C14_MissingTokenFailsBeforeSend ==
    /\ \A i \in 1..Len(http) : ~Truthy(http[i].token) => http[i].pending = NoPending
    /\ \A c \in DOMAIN default_params : \A kv \in default_params[c] : Truthy(kv.v)
    /\ (last.op = "request" /\ ~Truthy(http[last.idx].token)) =>
            /\ last.outcome = "RuntimeError"
            /\ last.sent = <<>>
            /\ last.fetched = <<>>
    /\ last.op = "get_image_as_bytes" =>
            /\ last.outcome = "ok"
            /\ Truthy(last.args[1]) => last.fetched = <<last.args[1]>>

\* a request on a synchronous transport whose token is the empty string raised
C14_Witness ==
    /\ last.op = "request"
    /\ last.cls = "HTTPClient"
    /\ http[last.idx].token = PyStr(<<>>)
    /\ last.outcome = "RuntimeError"

\* C15: every metadata request that is sent carries exactly one api_key, the
\* token of the transport of the client that issued it.
C15_ApiKeyIsOwnToken ==
    (last.op = "request" /\ last.sent # <<>>) =>
        {kv.v : kv \in {x \in last.sent[1].params : x.k = "api_key"}}
            = {http[last.idx].token}

\* C16: get_image_as_bytes returns; for a url that is None or empty it returns
\* b"" and fetches nothing, for any other url it fetches once, from exactly the
\* url it was given, and returns the body; it sends no metadata request and
\* stores nothing in a params dict.
C16_GetImageAsBytes ==
    last.op = "get_image_as_bytes" =>
        /\ last.outcome = "ok"
        /\ last.sent = <<>>
        /\ IF Truthy(last.args[1])
           THEN /\ last.fetched = <<last.args[1]>>
                /\ last.ret.t = "bytes"
           ELSE /\ last.fetched = <<>>
                /\ last.ret = PyBytes(<<>>)

\* get_image_as_bytes on the empty url, on a transport that has a token
C16_Witness ==
    /\ last.op = "get_image_as_bytes"
    /\ last.args = <<PyStr(<<>>)>>
    /\ Truthy(http[last.idx].token)
    /\ last.ret = PyBytes(<<>>)
    /\ last.fetched = <<>>

\* C20: a transport is closed exactly if close() or the exit of a with block ran
\* on it, and a closed transport is closed in every later state.
C20_ClosedForGood ==
    /\ [](\A i \in 1..Len(http) : is_closed(http[i]) <=> http[i].close_called)
    /\ [][\A i \in 1..Len(http) : is_closed(http[i]) => is_closed(http'[i])]_vars

\* close() ran on a transport that was closed already
C20_Witness ==
    /\ last.op = "close"
    /\ is_closed(last.before)
    /\ is_closed(http[last.idx])

\* C19 as stated: a sequence that has come to its end issued exactly one
\* request and yielded one entity per item of the response.
C19_OneRequestEveryItem ==
    gen.state = "done" =>
        /\ Len(gen.sent) = 1
        /\ Len(gen.yielded) = Len(gen.items)

\* the state part of C19
C19_Sequence ==
    gen.state # "none" =>
        /\ Len(gen.sent) <= 1
        /\ gen.state = "created" => gen.sent = <<>> /\ gen.yielded = <<>>
        /\ gen.state = "suspended" => Len(gen.sent) = 1
        /\ Len(gen.yielded) <= Len(gen.items)
        /\ \A i \in 1..Len(gen.yielded) : gen.yielded[i] = gen.items[i].url
        /\ gen.ended = "exhausted" =>
               /\ Len(gen.sent) = 1
               /\ Len(gen.yielded) = Len(gen.items)
        /\ (last.op = "__next__" /\ last.before.state = "done") =>
               /\ last.outcome = StopOf(gen.cls)
               /\ last.sent = <<>>
               /\ gen = last.before

\* the step part of C19: an advance that yields hands out the one next item
C19_Step ==
    (gen.state # "none" /\ gen'.state = "suspended") =>
        /\ Len(gen'.yielded) = Len(gen.yielded) + 1
        /\ gen.state = "suspended" => gen'.sent = gen.sent /\ gen'.items = gen.items

\* C19: a sequence issues no request before it is first advanced and at most one
\* over its lifetime; what it has yielded is always the first items of the one
\* response, in response order, each advance yielding the one next item; it comes
\* to its normal end only after one request and every item; once at its end, by
\* exhaustion or by an exception, an advance yields nothing, sends nothing and
\* leaves it as it is.
C19_LazySingleRequestSequence ==
    /\ []C19_Sequence
    /\ [][C19_Step]_vars

\* a sequence over a response of two different items was advanced again after
\* it had yielded both and come to its end
C19_Witness ==
    /\ last.op = "__next__"
    /\ last.before.state = "done"
    /\ gen.ended = "exhausted"
    /\ Len(gen.yielded) = 2
    /\ gen.yielded[1] # gen.yielded[2]

\* C21: on every AstronomyPicture is_image is true exactly if media_type is
\* "image", is_video exactly if it is anything else, None included; so exactly
\* one of the two is true.
C21_ImageXorVideo ==
    (last.op = "AstronomyPicture" /\ last.outcome = "ok") =>
        /\ last.ret.is_image <=> (last.args[2] = PyStr(<<"image">>))
        /\ last.ret.is_video <=> (last.args[2] # PyStr(<<"image">>))
        /\ last.ret.is_image # last.ret.is_video

\* the properties of a picture whose payload carried no media_type
C21_Witness ==
    /\ last.op = "AstronomyPicture"
    /\ last.outcome = "ok"
    /\ last.args[2] = PyNone
    /\ last.ret.is_video
    /\ ~last.ret.is_image

\* C22: reading bytes_asset returns what the cache holds, None where nothing was
\* fetched, and fetches nothing.
C22_BytesAssetIsTheCache ==
    last.op = "bytes_asset" =>
        /\ last.outcome = "ok"
        /\ last.fetched = <<>>
        /\ last.ret = last.before._bytes

\* C23: the url property of every EpicImage get_epic_images returns is the url
\* its asset was built with.
C23_EpicImageUrl ==
    (last.op = "get_epic_images" /\ last.outcome = "ok") =>
        \A i \in 1..Len(assets) : EpicImage_url(assets[i]) = built[i]

ClientOps ==
    {"get_astronomy_picture", "get_range_astronomy_pictures",
     "get_rand_astronomy_pictures", "get_epic_images"}

\* C24: the cache of every asset a client method returns is None; a cache that is
\* not None is bytes, and no read, save or bytes_asset makes it None again (a
\* client method constructs new assets: assets then holds other objects, so
\* its steps say nothing of the objects held before).
C24_CacheNeverAbsentAgain ==
    /\ [](last.op \in ClientOps => \A i \in 1..Len(assets) : assets[i]._bytes = PyNone)
    /\ [](\A i \in 1..Len(assets) : assets[i]._bytes.t \in {"NoneType", "bytes"})
    /\ [][\/ last'.op \in ClientOps
          \/ \A i \in 1..Len(assets) :
                assets[i]._bytes # PyNone =>
                    /\ i <= Len(assets')
                    /\ assets'[i]._bytes # PyNone]_vars

\* a second read of an asset whose cache held a byte brought no bytes: the cache
\* holds b"", not None
C24_Witness ==
    /\ last.op = "read"
    /\ last.outcome = "ok"
    /\ last.before._bytes = PyBytes(<<1>>)
    /\ last.fetched # <<>>
    /\ assets[last.idx]._bytes = PyBytes(<<>>)

\* C25: of the tasks reading one AsyncAsset each one that is past an asset url
\* that is not empty has issued a fetch of its own; each read returns the bytes
\* its own fetch brought; and as soon as a read has returned, the cache holds the
\* bytes of the read that returned last.
C25_LastWriteWins ==
    /\ Truthy(assets[1]._url) =>
           fetches[1] = Cardinality({t \in 1..Len(tasks) : tasks[t].pc # "idle"})
    /\ \A t \in 1..Len(tasks) : tasks[t].pc = "done" => tasks[t].ret = tasks[t].got
    /\ \A t \in 1..Len(tasks) :
           (tasks[t].pc = "done" /\ tasks[t].order = Returns) =>
               assets[1]._bytes = tasks[t].got

\* three tasks had their fetches in flight together; the first to return brought
\* other bytes than the last, and all have returned
C25_Witness ==
    /\ Len(tasks) = MaxTasks
    /\ \A t \in 1..Len(tasks) : tasks[t].pc = "done"
    /\ fetches[1] = MaxTasks
    /\ \E t, u \in 1..Len(tasks) :
           /\ tasks[t].order = 1
           /\ tasks[u].order = MaxTasks
           /\ tasks[t].got # tasks[u].got
           /\ assets[1]._bytes = tasks[u].got

\* C26: after any reads and saves every asset has the url it was constructed
\* with, so assets that were equal are equal.
C26_UrlUnchanged ==
    \A i \in 1..Len(assets) :
        /\ assets[i]._url = built[i]
        /\ \A j \in 1..Len(assets) :
               (built[i] = built[j]) => Asset__eq__(assets[i], assets[j])

\* C27: a read with a valid extension of a partial SyncAsset that an earlier
\* read has fetched fetches the url that earlier read left in the asset, which is
\* the constructed url resolved with an extension, and leaves it there; where
\* the constructed url had placeholders and the extension now given is another
\* one, that is not the url built with the extension now given.
C27_ResolvedUrlStays ==
    (/\ last.op = "read"
     /\ last.cls = "SyncAsset"
     /\ last.outcome = "ok"
     /\ last.before.url_state = "partial"
     /\ fetches[last.idx] > Len(last.fetched)) =>
        /\ last.fetched = <<last.before._url>>
        /\ assets[last.idx]._url = last.before._url
        /\ \E e \in FileTypes :
               last.before._url.v = StrFormat(built[last.idx].v, <<e, e>>)
        /\ LET now == StrFormat(built[last.idx].v, <<last.args[1], last.args[1]>>)
           IN  now # last.before._url.v => last.fetched # <<PyStr(now)>>

\* read(jpg) of an asset built with placeholders that read(png) had resolved
C27_Witness ==
    /\ last.op = "read"
    /\ last.cls = "SyncAsset"
    /\ last.outcome = "ok"
    /\ last.args = <<jpg>>
    /\ HasPlaceholder(built[last.idx])
    /\ last.before._url.v = StrFormat(built[last.idx].v, <<png, png>>)
    /\ last.fetched = <<last.before._url>>

SaveOps == {"save", "save_to_path"}

\* C29 as stated: save fetches exactly if the cache is None or b"".
C29_FetchIffCacheEmpty ==
    last.op \in SaveOps => ((last.fetched # <<>>) <=> ~Truthy(last.before._bytes))

\* C29: save fetches nothing and returns if the cache holds bytes that are not
\* empty. If the cache is None or b"", also after an earlier fetch that brought
\* no bytes, save reads: it fetches the asset's url once and returns, except that
\* it raises ValueError without a fetch on a SyncAsset tagged partial and fetches
\* nothing for an empty or absent url.
C29_SaveFetches ==
    last.op \in SaveOps =>
        IF Truthy(last.before._bytes)
        THEN /\ last.outcome = "ok"
             /\ last.fetched = <<>>
             /\ assets[last.idx] = last.before
        ELSE IF last.cls = "SyncAsset" /\ last.before.url_state = "partial"
        THEN last.outcome = "ValueError" /\ last.fetched = <<>>
        ELSE /\ last.outcome = "ok"
             /\ last.fetched = IF Truthy(last.before._url) THEN <<last.before._url>>
                               ELSE <<>>

\* save fetched again an asset whose earlier fetch had brought no bytes
C29_Witness ==
    /\ last.op = "save"
    /\ last.outcome = "ok"
    /\ last.before._bytes = PyBytes(<<>>)
    /\ fetches[last.idx] = 2
    /\ last.fetched = <<last.before._url>>

====
